---- MODULE Spec2Model ----
(***************************************************************************)
(* Model of ClaudeCode.execute (nodes/ClaudeCode/ClaudeCode.node.ts).      *)
(*                                                                         *)
(* execute walks the input items one by one.  For each item it reads the   *)
(* node parameters, arms a timeout timer bound to a fresh AbortController, *)
(* validates the prompt, builds the SDK options, drains the SDK's record   *)
(* stream with for-await, formats one output record and pushes it to       *)
(* returnData.  The outer catch turns any error into a failure record      *)
(* (continueOnFail) or into a NodeOperationError that ends execute.        *)
(*                                                                         *)
(* JavaScript runs to completion between awaits: the only suspension point *)
(* of execute is the await of the next stream record, so a timer callback  *)
(* can run only while pc = "drain" or after execute has settled.           *)
(***************************************************************************)
EXTENDS Integers, Sequences, FiniteSets, TLC

VARIABLES
    items,          \* getInputData() with the node parameters of each item
    sdk,            \* per item: what query() will emit (records, then end or throw)
    continueOnFail, \* this.continueOnFail()
    itemIndex,      \* loop variable of execute (0-based)
    pc,             \* position of execute: loop, validate, drain, done, thrown
    timeout,        \* local `timeout` of the current iteration
    messages,       \* local `messages` of the current iteration
    pos,            \* number of records the current stream has delivered
    timers,         \* item index -> state of the timer armed for that item
    aborted,        \* item index -> abortController.signal.aborted of that item
    stream,         \* item index -> state of the record stream of that item
    paramReads,     \* item indices whose parameters were read, in order
    sdkCalls,       \* calls of query(): item index, prompt, options
    returnData,     \* local `returnData`
    thrown          \* the error execute rejected with, if any

vars == <<items, sdk, continueOnFail, itemIndex, pc, timeout, messages, pos,
          timers, aborted, stream, paramReads, sdkCalls, returnData, thrown>>

-----------------------------------------------------------------------------
(* Bounds                                                                  *)

MaxItems == 2       \* items of a batch
MaxFmtRecords == 2  \* records one stream emits in a single-item formatting run
MaxPromptLen == 2   \* characters of a prompt in a single-item query run
MaxErrWords == 2    \* words of an error message in a single-item query run

SeqsUpTo(S, n) == UNION {[1..k -> S] : k \in 0..n}

-----------------------------------------------------------------------------
(* JavaScript values.  A value is a record tagged by its type; an object   *)
(* is a function from its present keys to values, so that a missing key,   *)
(* a key holding null and a key holding a falsy value stay different.      *)

Undefined == [t |-> "undefined"]
Null == [t |-> "null"]
Bool(b) == [t |-> "bool", v |-> b]
Num(n) == [t |-> "num", v |-> n]
Str(s) == [t |-> "str", v |-> s]
Arr(s) == [t |-> "arr", v |-> s]
Obj(o) == [t |-> "obj", v |-> o]

\* obj.key on a plain object: undefined when the key is missing
Get(o, k) == IF k \in DOMAIN o THEN o[k] ELSE Undefined

\* value?.key : undefined when value is null or undefined
Prop(val, k) ==
    IF val.t = "obj" THEN Get(val.v, k) ELSE Undefined

\* value?.[i] on an array (0-based index)
At(val, i) ==
    IF val.t = "arr" /\ i + 1 \in DOMAIN val.v THEN val.v[i + 1] ELSE Undefined

\* ToBoolean
Truthy(val) ==
    CASE val.t \in {"undefined", "null"} -> FALSE
      [] val.t = "bool" -> val.v
      [] val.t = "num" -> val.v # 0
      [] val.t = "str" -> val.v # ""
      [] OTHER -> TRUE

\* a || b
OrElse(a, b) == IF Truthy(a) THEN a ELSE b

\* String(value); the only values that reach it here are strings
ToStr(val) ==
    CASE val.t = "str" -> val
      [] val.t = "null" -> Str("null")
      [] val.t = "undefined" -> Str("undefined")
      [] OTHER -> Str("[object]")

RECURSIVE HasNullish(_)
\* TRUE iff the value is null/undefined or holds one at some depth
HasNullish(val) ==
    CASE val.t \in {"undefined", "null"} -> TRUE
      [] val.t = "arr" -> \E i \in DOMAIN val.v : HasNullish(val.v[i])
      [] val.t = "obj" -> \E k \in DOMAIN val.v : HasNullish(val.v[k])
      [] OTHER -> FALSE

-----------------------------------------------------------------------------
(* Strings that the code inspects are sequences of characters.             *)

\* white space as String.prototype.trim sees it (the characters used here)
IsSpace(c) == c \in {" ", "\t"}

RECURSIVE TrimStart(_)
TrimStart(s) ==
    IF s # <<>> /\ IsSpace(Head(s)) THEN TrimStart(Tail(s)) ELSE s

RECURSIVE TrimEnd(_)
TrimEnd(s) ==
    IF s # <<>> /\ IsSpace(s[Len(s)]) THEN TrimEnd(SubSeq(s, 1, Len(s) - 1)) ELSE s

\* String.prototype.trim
Trim(s) == TrimEnd(TrimStart(s))

\* variant: the check without trim()
IsBlankNoTrim(s) == s = <<>>

\* !prompt || prompt.trim() === ''
IsBlank(s) == s = <<>> \/ Trim(s) = <<>>

\* An error message is a sequence of words; includes(sig) looks for the
\* signature among them.
Includes(msg, sig) == \E i \in DOMAIN msg : msg[i] = sig

-----------------------------------------------------------------------------
(* Query Invoker: the options structure handed to query()                  *)

\* queryOptions.options.settingSources is set only for a non-empty selection
SettingSourcesOption(p) ==
    IF Len(p.settingSources) > 0
    THEN "settingSources" :> p.settingSources
    ELSE <<>>

\* variant: the project path is handed over as typed
BuildOptionsNoTrim(p) ==
    [maxTurns |-> p.maxTurns,
     permissionMode |-> IF p.additionalOptions.requirePermissions
                        THEN "default" ELSE "bypassPermissions",
     model |-> p.model]
    @@ (IF p.additionalOptions.systemPrompt # ""
        THEN "systemPrompt" :> p.additionalOptions.systemPrompt ELSE <<>>)
    @@ (IF p.projectPath # <<>> /\ Trim(p.projectPath) # <<>>
        THEN "cwd" :> p.projectPath ELSE <<>>)
    @@ (IF Len(p.allowedTools) > 0
        THEN "allowedTools" :> p.allowedTools ELSE <<>>)
    @@ SettingSourcesOption(p)
    @@ (IF p.operation = "continue" THEN "continue" :> TRUE ELSE <<>>)

\* queryOptions.options as it stands when query() is called
BuildOptions(p) ==
    [maxTurns |-> p.maxTurns,
     permissionMode |-> IF p.additionalOptions.requirePermissions
                        THEN "default" ELSE "bypassPermissions",
     model |-> p.model]
    @@ (IF p.additionalOptions.systemPrompt # ""
        THEN "systemPrompt" :> p.additionalOptions.systemPrompt ELSE <<>>)
    @@ (IF p.projectPath # <<>> /\ Trim(p.projectPath) # <<>>
        THEN "cwd" :> Trim(p.projectPath) ELSE <<>>)
    @@ (IF Len(p.allowedTools) > 0
        THEN "allowedTools" :> p.allowedTools ELSE <<>>)
    @@ SettingSourcesOption(p)
    @@ (IF p.operation = "continue" THEN "continue" :> TRUE ELSE <<>>)

-----------------------------------------------------------------------------
(* Message Classifier & Output Formatter                                   *)

IsType(m, ty) == Get(m, "type") = Str(ty)

\* variant: the element at the last passing position
FindLast(msgs, passing) ==
    IF passing # {}
    THEN Obj(msgs[CHOOSE k \in passing : \A j \in passing : k >= j])
    ELSE Undefined

\* Array.prototype.find, given the positions that pass the test: the element
\* at the first such position, else undefined
Find(msgs, passing) ==
    IF passing # {}
    THEN Obj(msgs[CHOOSE k \in passing : \A j \in passing : k <= j])
    ELSE Undefined

IsResult(m) == IsType(m, "result")

\* messages.find((m) => m.type === 'result')
ResultMessage(msgs) == Find(msgs, {k \in DOMAIN msgs : IsResult(msgs[k])})

IsSystemInit(m) == IsType(m, "system") /\ Get(m, "subtype") = Str("init")

IsUser(m) == IsType(m, "user")

IsAssistant(m) == IsType(m, "assistant")

\* variant: success whenever a result record exists
SuccessOfAnyResult(rm) == Truthy(rm)

\* resultMessage?.subtype === 'success'
SuccessOf(rm) == Prop(rm, "subtype") = Str("success")

\* variant: the fallback to the error field is missing
TextResultNoError(rm) ==
    ToStr(OrElse(Prop(rm, "result"), Str("No result available")))

\* String(resultMessage?.result || resultMessage?.error || 'No result available')
TextResult(rm) ==
    ToStr(OrElse(Prop(rm, "result"),
          OrElse(Prop(rm, "error"), Str("No result available"))))

\* outputFormat === 'text'
FormatText(msgs) ==
    LET rm == ResultMessage(msgs) IN
    [result |-> TextResult(rm),
     success |-> Bool(SuccessOf(rm))]
    @@ (IF Prop(rm, "duration_ms") # Undefined
        THEN "duration_ms" :> Prop(rm, "duration_ms") ELSE <<>>)
    @@ (IF Prop(rm, "total_cost_usd") # Undefined
        THEN "total_cost_usd" :> Prop(rm, "total_cost_usd") ELSE <<>>)

\* one element of cleanMessages
CleanMsg(m) ==
    ("type" :> Get(m, "type"))
    @@ (IF Truthy(Get(m, "message")) THEN "message" :> m.message ELSE <<>>)
    @@ (IF Truthy(Get(m, "result")) THEN "result" :> m.result ELSE <<>>)
    @@ (IF Truthy(Get(m, "error")) THEN "error" :> m.error ELSE <<>>)
    @@ (IF Truthy(Get(m, "subtype")) THEN "subtype" :> m.subtype ELSE <<>>)

\* variant: the summaries are collected newest first
FormatMessagesReversed(msgs) ==
    [messages |-> Arr([i \in DOMAIN msgs |->
                          Obj(CleanMsg(msgs[Len(msgs) + 1 - i]))]),
     messageCount |-> Num(Len(msgs))]

\* outputFormat === 'messages'
FormatMessages(msgs) ==
    [messages |-> Arr([i \in DOMAIN msgs |-> Obj(CleanMsg(msgs[i]))]),
     messageCount |-> Num(Len(msgs))]

\* variant: every assistant record counts as a tool use
IsToolUseAnyAssistant(m) == IsType(m, "assistant")

\* m.type === 'assistant' && m.message?.content?.[0]?.type === 'tool_use'
IsToolUse(m) ==
    /\ IsType(m, "assistant")
    /\ Prop(At(Prop(Get(m, "message"), "content"), 0), "type") = Str("tool_use")

\* the summary block of the structured response
StructuredSummary(msgs) ==
    LET rm == ResultMessage(msgs)
        systemInit == Find(msgs, {k \in DOMAIN msgs : IsSystemInit(msgs[k])})
    IN
    [userMessageCount |-> Num(Len(SelectSeq(msgs, IsUser))),
     assistantMessageCount |-> Num(Len(SelectSeq(msgs, IsAssistant))),
     toolUseCount |-> Num(Len(SelectSeq(msgs, IsToolUse))),
     hasResult |-> Bool(Truthy(rm)),
     toolsAvailable |-> OrElse(Prop(systemInit, "tools"), Arr(<<>>))]

\* variant: result and error are added independently
StructuredResultBoth(rm) ==
    (IF Truthy(Prop(rm, "result")) THEN "result" :> Prop(rm, "result") ELSE <<>>)
    @@ (IF Truthy(Prop(rm, "error")) THEN "error" :> Prop(rm, "error") ELSE <<>>)

\* if (resultMessage?.result) ... else if (resultMessage?.error) ...
StructuredResult(rm) ==
    IF Truthy(Prop(rm, "result")) THEN "result" :> Prop(rm, "result")
    ELSE IF Truthy(Prop(rm, "error")) THEN "error" :> Prop(rm, "error")
    ELSE <<>>

\* variant: metrics are added for every result record
StructuredMetricsAnyResult(rm) ==
    IF Truthy(rm)
    THEN "metrics" :> Obj(
        [duration_ms |-> OrElse(Prop(rm, "duration_ms"), Num(0)),
         num_turns |-> OrElse(Prop(rm, "num_turns"), Num(0)),
         total_cost_usd |-> OrElse(Prop(rm, "total_cost_usd"), Num(0)),
         usage |-> OrElse(Prop(rm, "usage"), Obj(<<>>))])
    ELSE <<>>

\* if (resultMessage && resultMessage.duration_ms !== undefined) response.metrics = ...
StructuredMetrics(rm) ==
    IF Truthy(rm) /\ Prop(rm, "duration_ms") # Undefined
    THEN "metrics" :> Obj(
        [duration_ms |-> OrElse(Prop(rm, "duration_ms"), Num(0)),
         num_turns |-> OrElse(Prop(rm, "num_turns"), Num(0)),
         total_cost_usd |-> OrElse(Prop(rm, "total_cost_usd"), Num(0)),
         usage |-> OrElse(Prop(rm, "usage"), Obj(<<>>))])
    ELSE <<>>

\* variant: the raw records are attached whatever the debug flag
StructuredMessagesAlways(msgs, debug) ==
    "messages" :> Arr([i \in DOMAIN msgs |-> Obj(msgs[i])])

\* if (additionalOptions.debug) response.messages = messages
StructuredMessages(msgs, debug) ==
    IF debug
    THEN "messages" :> Arr([i \in DOMAIN msgs |-> Obj(msgs[i])])
    ELSE <<>>

\* outputFormat === 'structured'
FormatStructured(msgs, debug) ==
    LET rm == ResultMessage(msgs) IN
    [summary |-> Obj(StructuredSummary(msgs)),
     success |-> Bool(SuccessOf(rm))]
    @@ StructuredResult(rm)
    @@ StructuredMetrics(rm)
    @@ StructuredMessages(msgs, debug)

\* variant: only the text format pushes a record
FormatOutputTextOnly(fmt, msgs, debug, idx) ==
    IF fmt = "text" THEN <<[json |-> FormatText(msgs), pairedItem |-> idx]>>
    ELSE <<>>

\* The if / else-if chain on outputFormat: the records pushed to returnData
\* (none when the format is not one of the three)
FormatOutput(fmt, msgs, debug, idx) ==
    IF fmt = "text" THEN <<[json |-> FormatText(msgs), pairedItem |-> idx]>>
    ELSE IF fmt = "messages"
    THEN <<[json |-> FormatMessages(msgs), pairedItem |-> idx]>>
    ELSE IF fmt = "structured"
    THEN <<[json |-> FormatStructured(msgs, debug), pairedItem |-> idx]>>
    ELSE <<>>

\* The progress tracking of the for-await body dereferences content[0].type
\* under debug; an assistant record with an empty content list makes it throw.
TrackThrows(m, debug) ==
    /\ debug
    /\ IsType(m, "assistant")
    /\ Truthy(Prop(Get(m, "message"), "content"))
    /\ At(Prop(Get(m, "message"), "content"), 0) = Undefined

-----------------------------------------------------------------------------
(* Failure Translator                                                      *)

\* error instanceof Error ? error.message : 'An unknown error occurred'
ErrorMessage(e) ==
    IF e.isError THEN e.message ELSE <<"An unknown error occurred">>

\* variant: timeout detected by message text
IsTimeoutByMessage(e) == e.isError /\ Includes(e.message, "timeout")

\* error instanceof Error && error.name === 'AbortError'
IsTimeout(e) == e.isError /\ e.name = "AbortError"

\* the record pushed under continueOnFail
FailureRecord(e, idx) ==
    [json |->
        [error |-> Str(ErrorMessage(e)),
         errorType |-> Str(IF IsTimeout(e) THEN "timeout" ELSE "execution_error"),
         errorDetails |-> Str(<<IF e.isError THEN "stack" ELSE "String", e.name, e.message>>),
         itemIndex |-> Num(idx),
         success |-> Bool(FALSE)],
     pairedItem |-> idx]

MsgTimeout(t) ==
    <<"Operation timed out after", t,
      "seconds. Consider increasing the timeout in Additional Options.">>

MsgCli == <<"Claude Code CLI is not properly installed or configured.">>

MsgAuth == <<"Claude Code authentication failed.">>

MsgPermission == <<"Permission denied accessing project path or Claude CLI.">>

MsgGeneric(msg) == <<"Claude Code execution failed:">> \o msg

\* variant: the authentication test placed before the spawn test
UserFriendlyMessageAuthFirst(e, t) ==
    LET msg == ErrorMessage(e) IN
    IF IsTimeout(e) THEN MsgTimeout(t)
    ELSE IF Includes(msg, "Authentication") \/ Includes(msg, "auth")
    THEN MsgAuth
    ELSE IF Includes(msg, "exited with code 1") \/ Includes(msg, "spawn")
            \/ Includes(msg, "ENOENT")
    THEN MsgCli
    ELSE IF Includes(msg, "permission") \/ Includes(msg, "EACCES")
    THEN MsgPermission
    ELSE MsgGeneric(msg)

\* userFriendlyMessage of the if / else-if chain
UserFriendlyMessage(e, t) ==
    LET msg == ErrorMessage(e) IN
    IF IsTimeout(e) THEN MsgTimeout(t)
    ELSE IF Includes(msg, "exited with code 1") \/ Includes(msg, "spawn")
            \/ Includes(msg, "ENOENT")
    THEN MsgCli
    ELSE IF Includes(msg, "Authentication") \/ Includes(msg, "auth")
    THEN MsgAuth
    ELSE IF Includes(msg, "permission") \/ Includes(msg, "EACCES")
    THEN MsgPermission
    ELSE MsgGeneric(msg)

\* description of the if / else-if chain
Description(e) ==
    LET msg == ErrorMessage(e) IN
    IF IsTimeout(e) THEN msg
    ELSE IF Includes(msg, "exited with code 1") \/ Includes(msg, "spawn")
            \/ Includes(msg, "ENOENT")
    THEN msg \o <<"Troubleshooting: install, authenticate, verify, PATH">>
    ELSE IF Includes(msg, "Authentication") \/ Includes(msg, "auth")
    THEN msg \o <<"Run 'claude auth' on your server to authenticate.">>
    ELSE IF Includes(msg, "permission") \/ Includes(msg, "EACCES")
    THEN msg \o <<"Check: project path, permissions, CLI access">>
    ELSE msg

\* new NodeOperationError(this.getNode(), userFriendlyMessage, {itemIndex, description})
RaisedError(e, t, idx) ==
    [message |-> UserFriendlyMessage(e, t),
     itemIndex |-> idx,
     description |-> Description(e)]

\* new NodeOperationError(..., 'Prompt is required and cannot be empty', {itemIndex})
ValidationError ==
    [isError |-> TRUE, name |-> "NodeOperationError",
     message |-> <<"Prompt is required and cannot be empty">>]

\* the TypeError of reading .type of undefined
TrackError ==
    [isError |-> TRUE, name |-> "TypeError",
     message |-> <<"Cannot read properties of undefined (reading 'type')">>]

\* what the stream rejects with once its abortController has aborted
AbortError ==
    [isError |-> TRUE, name |-> "AbortError",
     message |-> <<"The operation was aborted">>]

-----------------------------------------------------------------------------
(* Inputs: node parameters of an item and the records the SDK emits for it *)

\* the defaults of the parameter schema
DefaultParams ==
    [operation |-> "query",
     prompt |-> <<"a">>,
     model |-> "sonnet",
     maxTurns |-> 10,
     timeout |-> 300,
     projectPath |-> <<>>,
     outputFormat |-> "structured",
     allowedTools |-> <<"WebFetch", "TodoWrite", "WebSearch", "exit_plan_mode", "Task">>,
     settingSources |-> <<"user", "project", "local">>,
     additionalOptions |->
        [systemPrompt |-> "", requirePermissions |-> FALSE, debug |-> FALSE]]

TimeoutSet == {5, 300}

Chars == {" ", "\t", "a"}

\* Response records of the SDK
SysInit ==
    [type |-> Str("system"), subtype |-> Str("init"),
     tools |-> Arr(<<Str("Bash"), Str("Read")>>)]

SysInitEdit ==
    [type |-> Str("system"), subtype |-> Str("init"),
     tools |-> Arr(<<Str("Edit")>>)]

SysStatus ==
    [type |-> Str("system"), subtype |-> Str("status"),
     tools |-> Arr(<<Str("Grep")>>)]

UserMsg ==
    [type |-> Str("user"),
     message |-> Obj([role |-> Str("user"),
                      content |-> Arr(<<Obj([type |-> Str("text"),
                                             text |-> Str("ok")])>>)])]

AsstText ==
    [type |-> Str("assistant"),
     message |-> Obj([content |-> Arr(<<Obj([type |-> Str("text"),
                                             text |-> Str("hi")])>>),
                      stop_reason |-> Str("end_turn")])]

AsstTool ==
    [type |-> Str("assistant"),
     message |-> Obj([content |-> Arr(<<Obj([type |-> Str("tool_use"),
                                             name |-> Str("Bash")])>>),
                      stop_reason |-> Null])]

AsstEmpty ==
    [type |-> Str("assistant"),
     message |-> Obj([content |-> Arr(<<>>),
                      stop_reason |-> Str("end_turn")])]

ResOk ==
    [type |-> Str("result"), subtype |-> Str("success"),
     result |-> Str("done"), duration_ms |-> Num(120)]

ResFull ==
    [type |-> Str("result"), subtype |-> Str("success"),
     result |-> Str("all done"), duration_ms |-> Num(0), num_turns |-> Num(2),
     total_cost_usd |-> Num(1), usage |-> Obj([input_tokens |-> Num(5)])]

ResErr ==
    [type |-> Str("result"), subtype |-> Str("error_max_turns"),
     error |-> Str("max turns"), duration_ms |-> Num(50)]

ResBare ==
    [type |-> Str("result"), subtype |-> Str("error_during_execution")]

ResEmpty ==
    [type |-> Str("result"), subtype |-> Str("success"), result |-> Str(""),
     error |-> Str("late"), total_cost_usd |-> Num(0)]

ResNull ==
    [type |-> Str("result"), subtype |-> Str("success"), result |-> Null,
     duration_ms |-> Null, total_cost_usd |-> Null]

ResBoth ==
    [type |-> Str("result"), subtype |-> Str("error_during_execution"),
     result |-> Str("partial"), error |-> Str("boom")]

RecordSet ==
    {SysInit, SysInitEdit, SysStatus, UserMsg, AsstText, AsstTool, AsstEmpty,
     ResOk, ResFull, ResErr, ResBare, ResEmpty, ResNull, ResBoth}

End == [kind |-> "end"]

Throw(e) == [kind |-> "throw", error |-> e]

Script(rs, e) == [records |-> rs, ending |-> e]

Case(p, s) == [params |-> p, script |-> s]

SpawnError ==
    [isError |-> TRUE, name |-> "Error", message |-> <<"spawn", "ENOENT">>]

\* what the stream of a batch item emits: nothing, a lone result, or an
\* assistant record and a result; then it ends or throws
BatchScripts ==
    {Script(rs, e) : rs \in {<<>>, <<ResOk>>, <<AsstText, ResOk>>},
                     e \in {End, Throw(SpawnError)}}

\* the formats of a batch item besides text: one more of the three the
\* schema offers, and a value outside the schema, as an expression may yield
OtherFormats == {"structured", "raw"}

\* Items of a batch run: blank and non-blank prompts, short and default
\* timeouts, streams that end or throw, formats inside and outside the schema.  The stream of an item with a blank
\* prompt is never opened, so no script is drawn for it.
BatchCases ==
    {Case([DefaultParams EXCEPT !.prompt = pr, !.timeout = t,
                                !.outputFormat = "text"], sc) :
        pr \in {<<"a">>}, t \in TimeoutSet, sc \in BatchScripts}
    \cup
    {Case([DefaultParams EXCEPT !.prompt = pr, !.timeout = t,
                                !.outputFormat = "text"], Script(<<>>, End)) :
        pr \in {<<>>, <<" ">>}, t \in TimeoutSet}
    \cup
    {Case([DefaultParams EXCEPT !.outputFormat = f],
          Script(<<AsstText, ResOk>>, End)) : f \in OtherFormats}

\* the two scenarios of the specification's examples
ScenarioDone == <<SysInit, AsstText, ResOk>>

ScenarioAborted == <<SysInit, AsstText, AsstTool>>

\* Items of a single-item formatting run
FormatCases ==
    {Case([DefaultParams EXCEPT !.outputFormat = f,
                                !.additionalOptions.debug = d],
          Script(rs, End)) :
        f \in {"text", "messages", "structured"}, d \in BOOLEAN,
        rs \in SeqsUpTo(RecordSet, MaxFmtRecords)
                 \cup {ScenarioDone, ScenarioAborted}}

ErrWords ==
    {"exited with code 1", "spawn", "ENOENT", "Authentication", "auth",
     "permission", "EACCES", "failed"}

ErrorSet ==
    {[isError |-> TRUE, name |-> n, message |-> m] :
        n \in {"Error", "AbortError"}, m \in SeqsUpTo(ErrWords, MaxErrWords)}
    \cup {[isError |-> FALSE, name |-> "", message |-> <<"spawn">>]}

\* Items of a single-item query run: every combination of the parameters
\* that shape the SDK call, and every error the stream may throw
QueryCases ==
    {Case([DefaultParams EXCEPT !.prompt = pr, !.settingSources = ss,
                                !.operation = op, !.projectPath = pp,
                                !.allowedTools = at,
                                !.additionalOptions.systemPrompt = sp,
                                !.additionalOptions.requirePermissions = rp,
                                !.outputFormat = "text"],
          Script(<<ResOk>>, End)) :
        pr \in SeqsUpTo(Chars, MaxPromptLen),
        ss \in {<<>>, <<"user">>, <<"project", "local">>,
                <<"user", "project", "local">>},
        op \in {"query", "continue"},
        pp \in {<<>>, <<" ">>, <<" ", "/", "p", " ">>},
        at \in {<<>>, <<"Bash", "Read">>},
        sp \in {"", "Be brief"},
        rp \in BOOLEAN}
    \cup
    {Case([DefaultParams EXCEPT !.timeout = t, !.outputFormat = "text"],
          Script(rs, Throw(e))) :
        t \in TimeoutSet, rs \in {<<>>, <<AsstText>>}, e \in ErrorSet}

-----------------------------------------------------------------------------
(* State machine of execute                                                *)

ItemIds == 0..(Len(items) - 1)

\* parameters of the item being processed (getNodeParameter(..., itemIndex))
Params == items[itemIndex + 1]

\* what query() emits for the item being processed
Emission == sdk[itemIndex + 1]

InitWith(cs) ==
    /\ items = [i \in DOMAIN cs |-> cs[i].params]
    /\ sdk = [i \in DOMAIN cs |-> cs[i].script]
    /\ continueOnFail \in BOOLEAN
    /\ itemIndex = 0
    /\ pc = "loop"
    /\ timeout = 300
    /\ messages = <<>>
    /\ pos = 0
    /\ timers = [i \in 0..(Len(cs) - 1) |-> "none"]
    /\ aborted = [i \in 0..(Len(cs) - 1) |-> FALSE]
    /\ stream = [i \in 0..(Len(cs) - 1) |-> "none"]
    /\ paramReads = <<>>
    /\ sdkCalls = <<>>
    /\ returnData = <<>>
    /\ thrown = <<>>

Init == \E cs \in SeqsUpTo(BatchCases, MaxItems) : InitWith(cs)

InitFormat == \E c \in FormatCases \cup BatchCases : InitWith(<<c>>)

InitQuery == \E c \in QueryCases \cup BatchCases : InitWith(<<c>>)

\* clearTimeout(timeoutId): no effect on a timer that has fired
ClearTimeout(ts, i) ==
    IF ts[i] = "pending" THEN [ts EXCEPT ![i] = "cleared"] ELSE ts

\* variant: the outer catch raises whatever continueOnFail says
HandleErrorAlwaysThrow(e) ==
    /\ thrown' = <<RaisedError(e, timeout, itemIndex)>>
    /\ pc' = "thrown"
    /\ UNCHANGED <<returnData, itemIndex>>

\* variant: the outer catch records and continues whatever continueOnFail says
HandleErrorAlwaysContinue(e) ==
    /\ returnData' = Append(returnData, FailureRecord(e, itemIndex))
    /\ itemIndex' = itemIndex + 1
    /\ pc' = "loop"
    /\ thrown' = thrown

\* variant: the outer catch runs the failed item again
HandleErrorRetry(e) ==
    /\ pc' = "validate"
    /\ UNCHANGED <<returnData, itemIndex, thrown>>

\* the outer catch: a failure record and `continue`, or a raised error
HandleError(e) ==
    IF continueOnFail
    THEN /\ returnData' = Append(returnData, FailureRecord(e, itemIndex))
         /\ itemIndex' = itemIndex + 1
         /\ pc' = "loop"
         /\ thrown' = thrown
    ELSE /\ thrown' = <<RaisedError(e, timeout, itemIndex)>>
         /\ pc' = "thrown"
         /\ UNCHANGED <<returnData, itemIndex>>

\* loop head, parameter retrieval, new AbortController, setTimeout
BeginItem ==
    /\ pc = "loop"
    /\ itemIndex < Len(items)
    /\ paramReads' = Append(paramReads, itemIndex)
    /\ timeout' = Params.timeout
    /\ timers' = [timers EXCEPT ![itemIndex] = "pending"]
    /\ pc' = "validate"
    /\ UNCHANGED <<items, sdk, continueOnFail, itemIndex, messages, pos,
                   aborted, stream, sdkCalls, returnData, thrown>>

\* loop exit: return [returnData]
Return ==
    /\ pc = "loop"
    /\ itemIndex >= Len(items)
    /\ pc' = "done"
    /\ UNCHANGED <<items, sdk, continueOnFail, itemIndex, timeout, messages,
                   pos, timers, aborted, stream, paramReads, sdkCalls,
                   returnData, thrown>>

\* the prompt check throws, outside the inner try
ValidateFail ==
    /\ pc = "validate"
    /\ IsBlank(Params.prompt)
    /\ HandleError(ValidationError)
    /\ UNCHANGED <<items, sdk, continueOnFail, timeout, messages, pos, timers,
                   aborted, stream, paramReads, sdkCalls>>

\* variant: query() is called but its stream is not awaited
CallQueryNoAwait ==
    /\ pc = "validate"
    /\ ~IsBlank(Params.prompt)
    /\ sdkCalls' = Append(sdkCalls, [itemIndex |-> itemIndex,
                                     prompt |-> Params.prompt,
                                     options |-> BuildOptions(Params)])
    /\ stream' = [stream EXCEPT ![itemIndex] = "open"]
    /\ messages' = <<>>
    /\ pos' = 0
    /\ itemIndex' = itemIndex + 1
    /\ pc' = "loop"
    /\ UNCHANGED <<items, sdk, continueOnFail, timeout, timers,
                   aborted, paramReads, returnData, thrown>>

\* the prompt check passes: build queryOptions, call query(), start for-await
CallQuery ==
    /\ pc = "validate"
    /\ ~IsBlank(Params.prompt)
    /\ sdkCalls' = Append(sdkCalls, [itemIndex |-> itemIndex,
                                     prompt |-> Params.prompt,
                                     options |-> BuildOptions(Params)])
    /\ stream' = [stream EXCEPT ![itemIndex] = "open"]
    /\ messages' = <<>>
    /\ pos' = 0
    /\ pc' = "drain"
    /\ UNCHANGED <<items, sdk, continueOnFail, itemIndex, timeout, timers,
                   aborted, paramReads, returnData, thrown>>

\* one iteration of for-await: push the record, track progress
Receive ==
    /\ pc = "drain"
    /\ ~aborted[itemIndex]
    /\ pos < Len(Emission.records)
    /\ LET m == Emission.records[pos + 1] IN
        /\ messages' = Append(messages, m)
        /\ pos' = pos + 1
        /\ IF TrackThrows(m, Params.additionalOptions.debug)
           THEN /\ timers' = ClearTimeout(timers, itemIndex)
                /\ stream' = [stream EXCEPT ![itemIndex] = "closed"]
                /\ HandleError(TrackError)
           ELSE UNCHANGED <<timers, stream, returnData, itemIndex, pc, thrown>>
    /\ UNCHANGED <<items, sdk, continueOnFail, timeout, aborted, paramReads,
                   sdkCalls>>

\* the stream is exhausted: clearTimeout, format, push, next iteration
StreamEnd ==
    /\ pc = "drain"
    /\ ~aborted[itemIndex]
    /\ pos = Len(Emission.records)
    /\ Emission.ending.kind = "end"
    /\ timers' = ClearTimeout(timers, itemIndex)
    /\ stream' = [stream EXCEPT ![itemIndex] = "closed"]
    /\ returnData' = returnData \o FormatOutput(Params.outputFormat, messages,
                                     Params.additionalOptions.debug, itemIndex)
    /\ itemIndex' = itemIndex + 1
    /\ pc' = "loop"
    /\ UNCHANGED <<items, sdk, continueOnFail, timeout, messages, pos, aborted,
                   paramReads, sdkCalls, thrown>>

\* the stream rejects: inner catch clears the timer, outer catch handles
StreamThrow ==
    /\ pc = "drain"
    /\ ~aborted[itemIndex]
    /\ pos = Len(Emission.records)
    /\ Emission.ending.kind = "throw"
    /\ timers' = ClearTimeout(timers, itemIndex)
    /\ stream' = [stream EXCEPT ![itemIndex] = "closed"]
    /\ HandleError(Emission.ending.error)
    /\ UNCHANGED <<items, sdk, continueOnFail, timeout, messages, pos, aborted,
                   paramReads, sdkCalls>>

\* the item's abortController has aborted: the pending read rejects
StreamAbort ==
    /\ pc = "drain"
    /\ aborted[itemIndex]
    /\ timers' = ClearTimeout(timers, itemIndex)
    /\ stream' = [stream EXCEPT ![itemIndex] = "closed"]
    /\ HandleError(AbortError)
    /\ UNCHANGED <<items, sdk, continueOnFail, timeout, messages, pos, aborted,
                   paramReads, sdkCalls>>

\* variant: one abort controller is shared by all items
TimerFireShared(i) ==
    /\ pc \in {"drain", "done", "thrown"}
    /\ timers[i] = "pending"
    /\ timers' = [timers EXCEPT ![i] = "fired"]
    /\ aborted' = [j \in DOMAIN aborted |-> TRUE]
    /\ UNCHANGED <<items, sdk, continueOnFail, itemIndex, pc, timeout, messages,
                   pos, stream, paramReads, sdkCalls, returnData, thrown>>

\* the timer callback of item i: abortController.abort().  It runs only while
\* execute is suspended at the stream or has settled.
TimerFire(i) ==
    /\ pc \in {"drain", "done", "thrown"}
    /\ timers[i] = "pending"
    /\ timers' = [timers EXCEPT ![i] = "fired"]
    /\ aborted' = [aborted EXCEPT ![i] = TRUE]
    /\ UNCHANGED <<items, sdk, continueOnFail, itemIndex, pc, timeout, messages,
                   pos, stream, paramReads, sdkCalls, returnData, thrown>>

Next ==
    \/ BeginItem
    \/ Return
    \/ ValidateFail
    \/ CallQuery
    \/ Receive
    \/ StreamEnd
    \/ StreamThrow
    \/ StreamAbort
    \/ \E i \in ItemIds : TimerFire(i)

Spec == Init /\ [][Next]_vars

SpecFormat == InitFormat /\ [][Next]_vars

SpecQuery == InitQuery /\ [][Next]_vars

-----------------------------------------------------------------------------
(* Vocabulary of the properties                                            *)

\* the record of returnData is a formatted output, not a failure record
IsFormatted(r) == "errorType" \notin DOMAIN r.json

\* the records the stream of item i emits
RecordsOf(i) == sdk[i + 1].records

\* the output format selected for item i
FormatOf(i) == items[i + 1].outputFormat

\* every character of the string is white space (so is the empty string)
AllSpace(s) == \A k \in DOMAIN s : s[k] \in {" ", "\t"}

\* the error that ended item i, for an item whose processing is over
\* (<<>> when it did not fail)
FailureCause(i) ==
    IF AllSpace(items[i + 1].prompt) THEN <<ValidationError>>
    ELSE IF aborted[i] THEN <<AbortError>>
    ELSE IF \E k \in DOMAIN RecordsOf(i) :
                TrackThrows(RecordsOf(i)[k], items[i + 1].additionalOptions.debug)
    THEN <<TrackError>>
    ELSE IF sdk[i + 1].ending.kind = "throw" THEN <<sdk[i + 1].ending.error>>
    ELSE <<>>

Failed(i) == FailureCause(i) # <<>>

\* item indices of the calls of query(), in call order
CalledItems == [k \in DOMAIN sdkCalls |-> sdkCalls[k].itemIndex]

Range(f) == {f[k] : k \in DOMAIN f}

-----------------------------------------------------------------------------
(* C1: success flag of the output                                          *)

EndsInResult(rs) == rs # <<>> /\ Get(rs[Len(rs)], "type") = Str("result")

EndsInSuccess(rs) ==
    EndsInResult(rs) /\ Get(rs[Len(rs)], "subtype") = Str("success")

HasNoResult(rs) == \A k \in DOMAIN rs : Get(rs[k], "type") # Str("result")

\* the first result record of the sequence has subtype success
FirstResultIsSuccess(rs) ==
    \E k \in DOMAIN rs :
        /\ Get(rs[k], "type") = Str("result")
        /\ \A j \in 1..(k - 1) : Get(rs[j], "type") # Str("result")
        /\ Get(rs[k], "subtype") = Str("success")

\* C1 as stated: in each of the three formats the output of an item reports
\* success = true when its record sequence ends in a result record of subtype
\* success, and success = false when it ends in a result record of another
\* subtype or holds no result record.
C1_AsStated ==
    \A k \in DOMAIN returnData :
        LET r == returnData[k]
            rs == RecordsOf(r.pairedItem)
        IN IsFormatted(r) =>
            /\ EndsInSuccess(rs) => Get(r.json, "success") = Bool(TRUE)
            /\ (EndsInResult(rs) /\ ~EndsInSuccess(rs)) \/ HasNoResult(rs)
                    => Get(r.json, "success") = Bool(FALSE)

\* C1 amended: the text and structured outputs report success = true exactly
\* when the first result record of the sequence has subtype success and
\* success = false otherwise (another subtype, or no result record); the
\* messages output has no success key.
C1_SuccessFlag ==
    \A k \in DOMAIN returnData :
        LET r == returnData[k]
            rs == RecordsOf(r.pairedItem)
        IN IsFormatted(r) =>
            IF FormatOf(r.pairedItem) \in {"text", "structured"}
            THEN Get(r.json, "success") = Bool(FirstResultIsSuccess(rs))
            ELSE "success" \notin DOMAIN r.json

\* a structured output reporting success for a sequence of at least three
\* records that ends in a success result
C1_Witness ==
    \E k \in DOMAIN returnData :
        LET r == returnData[k] IN
        /\ IsFormatted(r)
        /\ FormatOf(r.pairedItem) = "structured"
        /\ Len(RecordsOf(r.pairedItem)) >= 3
        /\ EndsInSuccess(RecordsOf(r.pairedItem))
        /\ Get(r.json, "success") = Bool(TRUE)

-----------------------------------------------------------------------------
(* C2: an empty settingSources selection                                   *)

\* C2: every call of query() for an item whose settingSources selection is
\* empty carries the key settingSources with an empty list as its value.
C2_EmptySelectionPassed ==
    \A k \in DOMAIN sdkCalls :
        LET c == sdkCalls[k] IN
        items[c.itemIndex + 1].settingSources = <<>>
            => /\ "settingSources" \in DOMAIN c.options
               /\ c.options["settingSources"] = <<>>

-----------------------------------------------------------------------------
(* C3: the timer is cleared on every exit path                             *)

\* C3: whenever execute is at the loop head, has returned or has thrown, no
\* timer armed for an item is pending.
C3_NoPendingTimer ==
    pc \in {"loop", "done", "thrown"}
        => \A i \in ItemIds : timers[i] # "pending"

-----------------------------------------------------------------------------
(* C4: a blank prompt never reaches the SDK                                *)

\* C4: query() is never called for an item whose prompt is empty or all
\* white space, and once such an item has been processed it has failed with
\* the validation error: a failure record carrying its message, or the raised
\* error wrapping it.
C4_BlankPromptNoCall ==
    \A i \in ItemIds :
        AllSpace(items[i + 1].prompt) =>
            /\ i \notin Range(CalledItems)
            /\ stream[i] = "none"
            /\ i < itemIndex =>
                \E k \in DOMAIN returnData :
                    /\ returnData[k].pairedItem = i
                    /\ ~IsFormatted(returnData[k])
                    /\ returnData[k].json.error = Str(ValidationError.message)
            /\ (i = itemIndex /\ pc \notin {"loop", "validate"}) =>
                /\ pc = "thrown"
                /\ thrown = <<[message |-> MsgGeneric(ValidationError.message),
                              itemIndex |-> i,
                              description |-> ValidationError.message]>>

\* an item with a white-space-only prompt and non-default parameters has been
\* processed and no call was made
C4_Witness ==
    /\ Len(items) = 1
    /\ items[1].prompt = <<" ", "\t">>
    /\ items[1].operation = "continue"
    /\ items[1].settingSources = <<>>
    /\ itemIndex = 1
    /\ sdkCalls = <<>>
    /\ Len(returnData) = 1

-----------------------------------------------------------------------------
(* C5: a fired timer is reported as a timeout                              *)

\* C5: when the stream of the current item stops after that item's timer has
\* fired, the item fails as a timeout: under continueOnFail one failure record
\* with errorType 'timeout' is pushed for it, otherwise the raised error says
\* the operation timed out after N seconds, N being the item's timeout
\* parameter.
C5_TimeoutCategorized ==
    [][(pc = "drain" /\ aborted[itemIndex] /\ timers[itemIndex] = "fired"
            /\ pc' # "drain")
        => IF continueOnFail
           THEN /\ Len(returnData') = Len(returnData) + 1
                /\ returnData'[Len(returnData')].pairedItem = itemIndex
                /\ returnData'[Len(returnData')].json.errorType = Str("timeout")
                /\ thrown' = <<>>
           ELSE /\ Len(thrown') = 1
                /\ thrown'[1].itemIndex = itemIndex
                /\ thrown'[1].message =
                     <<"Operation timed out after", items[itemIndex + 1].timeout,
                       "seconds. Consider increasing the timeout in Additional Options.">>
                /\ returnData' = returnData]_vars

\* the second item of a batch, configured with 5 seconds, was aborted by its
\* timer and the raised error reports 5 seconds
C5_Witness ==
    /\ Len(items) = 2
    /\ pc = "thrown"
    /\ itemIndex = 1
    /\ items[2].timeout = 5
    /\ items[1].timeout = 300
    /\ timers[1] = "fired"
    /\ stream[1] = "closed"
    /\ thrown[1].message = MsgTimeout(5)

-----------------------------------------------------------------------------
(* C6: continue-on-failure                                                 *)

FailureKeys == {"error", "errorType", "errorDetails", "success"}

\* C6: with continueOnFail active nothing is ever raised; every processed item
\* that failed has exactly one record in returnData, a failure record carrying
\* error, errorType in {timeout, execution_error}, errorDetails and
\* success = false; every item before the current one was processed, and when
\* execute returns the parameters of all items were read.
C6_ContinueOnFail ==
    continueOnFail =>
        /\ pc # "thrown"
        /\ thrown = <<>>
        /\ \A i \in ItemIds : (i < itemIndex /\ Failed(i)) =>
            LET ks == {k \in DOMAIN returnData : returnData[k].pairedItem = i}
            IN /\ Cardinality(ks) = 1
               /\ \A k \in ks :
                    LET j == returnData[k].json IN
                    /\ FailureKeys \subseteq DOMAIN j
                    /\ j.errorType \in {Str("timeout"), Str("execution_error")}
                    /\ j.success = Bool(FALSE)
        /\ \A i \in ItemIds : i < itemIndex => i \in Range(paramReads)
        /\ pc = "done" => paramReads = [k \in 1..Len(items) |-> k - 1]

\* both items of a batch were processed although the first one failed
C6_Witness ==
    /\ continueOnFail
    /\ pc = "done"
    /\ Len(items) = 2
    /\ Failed(0)
    /\ ~Failed(1)
    /\ Len(returnData) = 2
    /\ ~IsFormatted(returnData[1])
    /\ IsFormatted(returnData[2])
    /\ CalledItems = <<1>>

-----------------------------------------------------------------------------
(* C7: without continue-on-failure the first failure ends the batch        *)

\* C7: with continueOnFail inactive no item before the current one has
\* failed, and once execute has thrown, the current item is a failed one, the
\* error carries its index and one of the five categorized messages, and no
\* later item had a parameter read, a timer armed or a query() call issued.
C7_RaiseAborts ==
    ~continueOnFail =>
        /\ \A i \in ItemIds : i < itemIndex => ~Failed(i)
        /\ pc # "thrown" => thrown = <<>>
        /\ pc = "thrown" =>
            /\ Failed(itemIndex)
            /\ Len(thrown) = 1
            /\ thrown[1].itemIndex = itemIndex
            /\ thrown[1].message \in
                 {MsgTimeout(items[itemIndex + 1].timeout), MsgCli, MsgAuth,
                  MsgPermission,
                  MsgGeneric(ErrorMessage(FailureCause(itemIndex)[1]))}
            /\ \A j \in ItemIds : j > itemIndex =>
                /\ j \notin Range(paramReads)
                /\ timers[j] = "none"
                /\ j \notin Range(CalledItems)
                /\ stream[j] = "none"

\* the first of two items failed and execute threw with the second untouched
C7_Witness ==
    /\ ~continueOnFail
    /\ pc = "thrown"
    /\ Len(items) = 2
    /\ itemIndex = 0
    /\ thrown[1].itemIndex = 0
    /\ paramReads = <<0>>
    /\ timers[1] = "none"

-----------------------------------------------------------------------------
(* C8: precedence of the failure categories                                *)

Categories == <<"timeout", "cli", "auth", "permission", "generic">>

\* the signature of category c is found in error e
Matches(c, e) ==
    LET words == Range(ErrorMessage(e)) IN
    CASE c = "timeout" -> e.isError /\ e.name = "AbortError"
      [] c = "cli" -> words \cap {"exited with code 1", "spawn", "ENOENT"} # {}
      [] c = "auth" -> words \cap {"Authentication", "auth"} # {}
      [] c = "permission" -> words \cap {"permission", "EACCES"} # {}
      [] OTHER -> TRUE

\* the message raised for category c
MessageOf(c, e, t) ==
    CASE c = "timeout" -> MsgTimeout(t)
      [] c = "cli" -> MsgCli
      [] c = "auth" -> MsgAuth
      [] c = "permission" -> MsgPermission
      [] OTHER -> <<"Claude Code execution failed:">> \o ErrorMessage(e)

\* the earliest category whose signature is found in e
FirstCategory(e) ==
    Categories[CHOOSE k \in DOMAIN Categories :
                   /\ Matches(Categories[k], e)
                   /\ \A j \in 1..(k - 1) : ~Matches(Categories[j], e)]

\* C8: the message of the raised error is the one of the earliest category,
\* in the order timeout, spawn, authentication, permission, generic, whose
\* signature the error of the failed item matches.
C8_Precedence ==
    pc = "thrown" =>
        LET e == FailureCause(itemIndex)[1] IN
        thrown[1].message =
            MessageOf(FirstCategory(e), e, items[itemIndex + 1].timeout)

\* an error matching the permission and the spawn signature was raised as a
\* CLI failure
C8_Witness ==
    /\ pc = "thrown"
    /\ FailureCause(0) =
         <<[isError |-> TRUE, name |-> "Error",
            message |-> <<"permission", "spawn">>]>>
    /\ thrown[1].message = MsgCli

-----------------------------------------------------------------------------
(* C9: items are processed one after another                               *)

C9_Inv ==
    /\ Cardinality({i \in ItemIds : stream[i] = "open"}) <= 1
    /\ \A i \in ItemIds : stream[i] = "open" => (i = itemIndex /\ pc = "drain")
    /\ \A k \in DOMAIN paramReads : paramReads[k] = k - 1
    /\ \A k \in DOMAIN sdkCalls : \A l \in DOMAIN sdkCalls :
            k < l => sdkCalls[k].itemIndex < sdkCalls[l].itemIndex
    /\ \A i \in Range(paramReads) : \A j \in ItemIds :
            j < i => (j < itemIndex /\ stream[j] \in {"none", "closed"})
    /\ \A i \in Range(CalledItems) : \A j \in ItemIds :
            j < i => (j < itemIndex /\ stream[j] \in {"none", "closed"})

\* a formatted output is pushed only when the stream has delivered all its
\* records
C9_Step ==
    (pc = "drain" /\ Len(returnData') > Len(returnData)
        /\ IsFormatted(returnData'[Len(returnData')]))
        => /\ pos = Len(RecordsOf(itemIndex))
           /\ messages = RecordsOf(itemIndex)

\* C9: at most one record stream is open at any time and it belongs to the
\* current item; parameters are read and query() is called in input order,
\* and only after the streams of all earlier items are closed; an item's
\* output is formatted only after its stream is drained.
C9_Sequential == []C9_Inv /\ [][C9_Step]_vars

\* the stream of the second item is open after the first one was drained
C9_Witness ==
    /\ Len(items) = 2
    /\ stream[0] = "closed"
    /\ stream[1] = "open"
    /\ Len(RecordsOf(0)) >= 1
    /\ pc = "drain"

-----------------------------------------------------------------------------
(* C10: no null or undefined value in an output                            *)

\* C10: no formatted output record holds, at any depth, a key whose value is
\* null or undefined.
C10_NoNullish ==
    \A k \in DOMAIN returnData :
        IsFormatted(returnData[k]) => ~HasNullish(Obj(returnData[k].json))

-----------------------------------------------------------------------------
(* C11: the messages output keeps every record, in order                   *)

\* the debug flag of item i
DebugOf(i) == items[i + 1].additionalOptions.debug

SummaryKeys == {"type", "message", "result", "error", "subtype"}

\* C11: in the messages output of an item, messageCount is the number of
\* records its stream emitted, the messages array has that many entries, and
\* entry k carries the type of the k-th record and nothing but fields of the
\* k-th record.
C11_MessagesInOrder ==
    \A n \in DOMAIN returnData :
        LET r == returnData[n]
            rs == RecordsOf(r.pairedItem)
        IN (IsFormatted(r) /\ FormatOf(r.pairedItem) = "messages") =>
            /\ r.json.messageCount = Num(Len(rs))
            /\ r.json.messages.t = "arr"
            /\ Len(r.json.messages.v) = Len(rs)
            /\ \A k \in DOMAIN rs :
                LET entry == r.json.messages.v[k].v IN
                /\ "type" \in DOMAIN entry
                /\ DOMAIN entry \subseteq SummaryKeys \cap DOMAIN rs[k]
                /\ \A key \in DOMAIN entry : entry[key] = rs[k][key]

\* a messages output built from three records of three different types
C11_Witness ==
    \E n \in DOMAIN returnData :
        LET r == returnData[n] IN
        /\ IsFormatted(r)
        /\ FormatOf(r.pairedItem) = "messages"
        /\ RecordsOf(r.pairedItem) = <<SysInit, AsstText, ResOk>>
        /\ r.json.messageCount = Num(3)

-----------------------------------------------------------------------------
(* C12: the structured output carries the raw records only under debug     *)

-----------------------------------------------------------------------------
(* C13: the text output                                                    *)

\* positions of the result records of a sequence
ResultPositions(rs) == {k \in DOMAIN rs : Get(rs[k], "type") = Str("result")}

\* the result record emitted first / last, as a one-element sequence
\* (<<>> when the sequence has none)
FirstResult(rs) ==
    IF ResultPositions(rs) = {} THEN <<>>
    ELSE <<rs[CHOOSE k \in ResultPositions(rs) :
                  \A j \in ResultPositions(rs) : k <= j]>>

LastResult(rs) ==
    IF ResultPositions(rs) = {} THEN <<>>
    ELSE <<rs[CHOOSE k \in ResultPositions(rs) :
                  \A j \in ResultPositions(rs) : k >= j]>>

\* the record has the field, with a value
HasField(rec, key) == key \in DOMAIN rec /\ rec[key] # Null

\* the record has the field, with a value other than '' and 0
HasTruthy(rec, key) ==
    /\ HasField(rec, key)
    /\ rec[key] \notin {Str(""), Num(0), Bool(FALSE)}

NoResultText == Str("No result available")

\* C13 as stated, the terminal record being the result record that ends the
\* run: result is its result field, else its error field, else 'No result
\* available'; without a result record result is that literal and success is
\* false; duration_ms and total_cost_usd are present exactly when the
\* terminal record carries them.
C13_AsStated ==
    \A n \in DOMAIN returnData :
        LET r == returnData[n]
            tr == LastResult(RecordsOf(r.pairedItem))
        IN (IsFormatted(r) /\ FormatOf(r.pairedItem) = "text") =>
            IF tr = <<>>
            THEN r.json = [result |-> NoResultText, success |-> Bool(FALSE)]
            ELSE /\ r.json.result =
                        IF HasField(tr[1], "result") THEN tr[1].result
                        ELSE IF HasField(tr[1], "error") THEN tr[1].error
                        ELSE NoResultText
                 /\ \A key \in {"duration_ms", "total_cost_usd"} :
                        (key \in DOMAIN r.json) <=> (key \in DOMAIN tr[1])

\* C13 amended: with the first result record of the sequence as terminal
\* record, result is its result field when that is a non-empty string, else
\* its error field when that is a non-empty string, else 'No result
\* available'; without a result record the output is exactly
\* {result: 'No result available', success: false}; duration_ms and
\* total_cost_usd are present exactly when the terminal record has those
\* keys, with the record's values.
C13_TextOutput ==
    \A n \in DOMAIN returnData :
        LET r == returnData[n]
            tr == FirstResult(RecordsOf(r.pairedItem))
        IN (IsFormatted(r) /\ FormatOf(r.pairedItem) = "text") =>
            IF tr = <<>>
            THEN r.json = [result |-> NoResultText, success |-> Bool(FALSE)]
            ELSE /\ r.json.result =
                        IF HasTruthy(tr[1], "result") THEN tr[1].result
                        ELSE IF HasTruthy(tr[1], "error") THEN tr[1].error
                        ELSE NoResultText
                 /\ \A key \in {"duration_ms", "total_cost_usd"} :
                        /\ (key \in DOMAIN r.json) <=> (key \in DOMAIN tr[1])
                        /\ key \in DOMAIN r.json => r.json[key] = tr[1][key]

\* the text output of the example run: result 'done', success, 120 ms and no
\* cost key
C13_Witness ==
    \E n \in DOMAIN returnData :
        LET r == returnData[n] IN
        /\ IsFormatted(r)
        /\ FormatOf(r.pairedItem) = "text"
        /\ RecordsOf(r.pairedItem) = ScenarioDone
        /\ r.json = [result |-> Str("done"), success |-> Bool(TRUE),
                     duration_ms |-> Num(120)]

-----------------------------------------------------------------------------
(* C14: result and error of the structured output                          *)

\* the result / error key a structured output derived from the record tr (a
\* one-element sequence, or <<>>) must hold, a field counting as had when it
\* has a value / when it has a value other than '' and 0
ResultKeysHad(tr) ==
    IF tr = <<>> THEN {}
    ELSE IF HasField(tr[1], "result") THEN {"result"}
    ELSE IF HasField(tr[1], "error") THEN {"error"}
    ELSE {}

ResultKeysTruthy(tr) ==
    IF tr = <<>> THEN {}
    ELSE IF HasTruthy(tr[1], "result") THEN {"result"}
    ELSE IF HasTruthy(tr[1], "error") THEN {"error"}
    ELSE {}

\* C14 as stated, the terminal record being the result record that ends the
\* run: the structured output holds result when the terminal record has a
\* result, otherwise error when it has an error, and neither key otherwise
\* or without a terminal record.
C14_AsStated ==
    \A n \in DOMAIN returnData :
        LET r == returnData[n]
            tr == LastResult(RecordsOf(r.pairedItem))
        IN (IsFormatted(r) /\ FormatOf(r.pairedItem) = "structured") =>
            DOMAIN r.json \cap {"result", "error"} = ResultKeysHad(tr)

\* C14 amended: the structured output never holds both result and error;
\* with the first result record as terminal record it holds result (that
\* record's value) when the record's result is a non-empty string, otherwise
\* error (that record's value) when its error is a non-empty string, and
\* neither key otherwise or without a result record.
C14_ResultOrError ==
    \A n \in DOMAIN returnData :
        LET r == returnData[n]
            tr == FirstResult(RecordsOf(r.pairedItem))
            held == DOMAIN r.json \cap {"result", "error"}
        IN (IsFormatted(r) /\ FormatOf(r.pairedItem) = "structured") =>
            /\ Cardinality(held) <= 1
            /\ held = ResultKeysTruthy(tr)
            /\ \A key \in held : r.json[key] = tr[1][key]

\* a structured output derived from a result record that has an error and
\* no result: the error key alone is present
C14_Witness ==
    \E n \in DOMAIN returnData :
        LET r == returnData[n] IN
        /\ IsFormatted(r)
        /\ FormatOf(r.pairedItem) = "structured"
        /\ RecordsOf(r.pairedItem) = <<AsstText, ResErr>>
        /\ DOMAIN r.json \cap {"result", "error"} = {"error"}
        /\ r.json.error = ResErr.error

-----------------------------------------------------------------------------
(* C15: the metrics block of the structured output                         *)

MetricKeys == {"duration_ms", "num_turns", "total_cost_usd", "usage"}

\* the value a metric takes when the record has none
MetricDefault(key) == IF key = "usage" THEN Obj(<<>>) ELSE Num(0)

\* C15 as stated, the terminal record being the result record that ends the
\* run: metrics is present exactly when a terminal record exists and carries
\* a duration_ms, and then the fields it shares with the terminal record
\* equal the record's values.
C15_AsStated ==
    \A n \in DOMAIN returnData :
        LET r == returnData[n]
            tr == LastResult(RecordsOf(r.pairedItem))
        IN (IsFormatted(r) /\ FormatOf(r.pairedItem) = "structured") =>
            /\ ("metrics" \in DOMAIN r.json) <=>
                   (tr # <<>> /\ "duration_ms" \in DOMAIN tr[1])
            /\ "metrics" \in DOMAIN r.json =>
                   \A key \in MetricKeys \cap DOMAIN tr[1] :
                       r.json.metrics.v[key] = tr[1][key]

\* C15 amended: with the first result record as terminal record, metrics is
\* present exactly when that record exists and has a duration_ms key; it
\* then holds exactly the four fields, each equal to the record's value when
\* the record has one other than null and 0, and otherwise 0 (the empty
\* object for usage).
C15_Metrics ==
    \A n \in DOMAIN returnData :
        LET r == returnData[n]
            tr == FirstResult(RecordsOf(r.pairedItem))
        IN (IsFormatted(r) /\ FormatOf(r.pairedItem) = "structured") =>
            /\ ("metrics" \in DOMAIN r.json) <=>
                   (tr # <<>> /\ "duration_ms" \in DOMAIN tr[1])
            /\ "metrics" \in DOMAIN r.json =>
                   /\ r.json.metrics.t = "obj"
                   /\ DOMAIN r.json.metrics.v = MetricKeys
                   /\ \A key \in MetricKeys :
                          r.json.metrics.v[key] =
                              IF HasTruthy(tr[1], key) THEN tr[1][key]
                              ELSE MetricDefault(key)

\* the structured output of the example run: 120 ms, and the defaults for
\* the metrics its result record lacks
C15_Witness ==
    \E n \in DOMAIN returnData :
        LET r == returnData[n] IN
        /\ IsFormatted(r)
        /\ FormatOf(r.pairedItem) = "structured"
        /\ RecordsOf(r.pairedItem) = ScenarioDone
        /\ "metrics" \in DOMAIN r.json
        /\ r.json.metrics = Obj([duration_ms |-> Num(120), num_turns |-> Num(0),
                                 total_cost_usd |-> Num(0), usage |-> Obj(<<>>)])

-----------------------------------------------------------------------------
(* C16: the summary of the structured output                               *)

\* positions of the records of a type
PositionsOfType(rs, ty) == {k \in DOMAIN rs : rs[k].type = Str(ty)}

\* the record's message has a first content block, and it is a tool_use block
FirstBlockIsToolUse(rec) ==
    LET content == rec.message.v.content.v IN
    /\ content # <<>>
    /\ content[1].v.type = Str("tool_use")

InitPositions(rs) ==
    {k \in PositionsOfType(rs, "system") : rs[k].subtype = Str("init")}

\* C16: the summary counts the user records, the assistant records and the
\* assistant records whose first content block is a tool_use block; hasResult
\* tells whether a result record was consumed; toolsAvailable is the tool
\* list of the first system record with subtype init, or the empty list.
C16_Summary ==
    \A n \in DOMAIN returnData :
        LET r == returnData[n]
            rs == RecordsOf(r.pairedItem)
            inits == InitPositions(rs)
        IN (IsFormatted(r) /\ FormatOf(r.pairedItem) = "structured") =>
            r.json.summary = Obj(
                [userMessageCount |->
                     Num(Cardinality(PositionsOfType(rs, "user"))),
                 assistantMessageCount |->
                     Num(Cardinality(PositionsOfType(rs, "assistant"))),
                 toolUseCount |->
                     Num(Cardinality({k \in PositionsOfType(rs, "assistant") :
                                          FirstBlockIsToolUse(rs[k])})),
                 hasResult |-> Bool(PositionsOfType(rs, "result") # {}),
                 toolsAvailable |->
                     IF inits = {} THEN Arr(<<>>)
                     ELSE rs[CHOOSE k \in inits :
                                 \A j \in inits : k <= j].tools])

\* the summary of the example run
C16_Witness ==
    \E n \in DOMAIN returnData :
        LET r == returnData[n] IN
        /\ IsFormatted(r)
        /\ FormatOf(r.pairedItem) = "structured"
        /\ RecordsOf(r.pairedItem) = ScenarioDone
        /\ r.json.summary = Obj(
               [userMessageCount |-> Num(0), assistantMessageCount |-> Num(1),
                toolUseCount |-> Num(0), hasResult |-> Bool(TRUE),
                toolsAvailable |-> SysInit.tools])
        /\ r.json.success = Bool(TRUE)
        /\ r.json.result = Str("done")
        /\ r.json.metrics.v.duration_ms = Num(120)

-----------------------------------------------------------------------------
(* C17: the options structure of the SDK call                              *)

\* t is s without its leading and trailing white space
IsTrimOf(t, s) ==
    /\ t # <<>> => (t[1] \notin {" ", "\t"} /\ t[Len(t)] \notin {" ", "\t"})
    /\ \E a \in 0..Len(s) : \E b \in a..Len(s) :
           /\ AllSpace(SubSeq(s, 1, a))
           /\ AllSpace(SubSeq(s, b + 1, Len(s)))
           /\ t = SubSeq(s, a + 1, b)

\* C17: every options structure handed to query() holds maxTurns, model and
\* permissionMode ('default' when requirePermissions is set, else
\* 'bypassPermissions'); it holds cwd exactly for a non-blank projectPath
\* (trimmed), allowedTools exactly for a non-empty allowlist, systemPrompt
\* exactly for a non-empty one, and continue = true exactly for the operation
\* 'continue'.
C17_Options ==
    \A c \in DOMAIN sdkCalls :
        LET o == sdkCalls[c].options
            p == items[sdkCalls[c].itemIndex + 1]
        IN
        /\ {"maxTurns", "model", "permissionMode"} \subseteq DOMAIN o
        /\ o.maxTurns = p.maxTurns
        /\ o.model = p.model
        /\ o.permissionMode = IF p.additionalOptions.requirePermissions
                              THEN "default" ELSE "bypassPermissions"
        /\ ("cwd" \in DOMAIN o) <=> ~AllSpace(p.projectPath)
        /\ "cwd" \in DOMAIN o => IsTrimOf(o.cwd, p.projectPath)
        /\ ("allowedTools" \in DOMAIN o) <=> (p.allowedTools # <<>>)
        /\ "allowedTools" \in DOMAIN o => o.allowedTools = p.allowedTools
        /\ ("systemPrompt" \in DOMAIN o) <=> (p.additionalOptions.systemPrompt # "")
        /\ "systemPrompt" \in DOMAIN o =>
               o.systemPrompt = p.additionalOptions.systemPrompt
        /\ ("continue" \in DOMAIN o) <=> (p.operation = "continue")
        /\ "continue" \in DOMAIN o => o.continue = TRUE

\* a continue call with permission checks from a padded project path, an
\* allowlist and a system prompt: every optional field is attached
C17_Witness ==
    \E c \in DOMAIN sdkCalls :
        LET o == sdkCalls[c].options
            p == items[sdkCalls[c].itemIndex + 1]
        IN
        /\ p.projectPath = <<" ", "/", "p", " ">>
        /\ p.operation = "continue"
        /\ p.additionalOptions.requirePermissions
        /\ {"cwd", "allowedTools", "systemPrompt", "continue"} \subseteq DOMAIN o
        /\ o.cwd = <<"/", "p">>
        /\ o.permissionMode = "default"

-----------------------------------------------------------------------------
(* C18: which result record is the terminal record                         *)

\* the fields of the output json (of format fmt) that depend on the terminal
\* record are derived from the record tr (a one-element sequence, or <<>>)
DerivedFrom(json, fmt, tr) ==
    /\ json.success = Bool(tr # <<>> /\ tr[1].subtype = Str("success"))
    /\ fmt = "text" =>
        /\ json.result =
               IF tr # <<>> /\ HasTruthy(tr[1], "result") THEN tr[1].result
               ELSE IF tr # <<>> /\ HasTruthy(tr[1], "error") THEN tr[1].error
               ELSE NoResultText
        /\ \A key \in {"duration_ms", "total_cost_usd"} :
               /\ (key \in DOMAIN json) <=> (tr # <<>> /\ key \in DOMAIN tr[1])
               /\ key \in DOMAIN json => json[key] = tr[1][key]
    /\ fmt = "structured" =>
        /\ json.summary.v.hasResult = Bool(tr # <<>>)
        /\ DOMAIN json \cap {"result", "error"} = ResultKeysTruthy(tr)
        /\ \A key \in ResultKeysTruthy(tr) : json[key] = tr[1][key]
        /\ ("metrics" \in DOMAIN json) <=>
               (tr # <<>> /\ "duration_ms" \in DOMAIN tr[1])
        /\ "metrics" \in DOMAIN json =>
               \A key \in MetricKeys :
                   json.metrics.v[key] = IF HasTruthy(tr[1], key) THEN tr[1][key]
                                         ELSE MetricDefault(key)

\* C18 as stated: success, result/error, hasResult and metrics are derived
\* from the result record emitted last.
C18_AsStated ==
    \A n \in DOMAIN returnData :
        LET r == returnData[n] IN
        (IsFormatted(r) /\ FormatOf(r.pairedItem) \in {"text", "structured"}) =>
            DerivedFrom(r.json, FormatOf(r.pairedItem),
                        LastResult(RecordsOf(r.pairedItem)))

\* C18 amended: in the text and structured outputs, success, result/error,
\* hasResult and metrics are derived from the result record emitted first,
\* also when the sequence holds more than one result record.
C18_FirstResultRecord ==
    \A n \in DOMAIN returnData :
        LET r == returnData[n] IN
        (IsFormatted(r) /\ FormatOf(r.pairedItem) \in {"text", "structured"}) =>
            DerivedFrom(r.json, FormatOf(r.pairedItem),
                        FirstResult(RecordsOf(r.pairedItem)))

\* a sequence of a failed result record followed by a successful one: the
\* text output reports the failure
C18_Witness ==
    \E n \in DOMAIN returnData :
        LET r == returnData[n] IN
        /\ IsFormatted(r)
        /\ FormatOf(r.pairedItem) = "text"
        /\ RecordsOf(r.pairedItem) = <<ResErr, ResOk>>
        /\ r.json = [result |-> Str("max turns"), success |-> Bool(FALSE),
                     duration_ms |-> Num(50)]

-----------------------------------------------------------------------------
(* C19: no retries                                                         *)

\* the calls of query() made for item i
CallsFor(i) == {k \in DOMAIN sdkCalls : sdkCalls[k].itemIndex = i}

\* C19: query() is called at most once for each input item, and only for
\* input items, whatever the outcome of the item and whatever continueOnFail
\* says.
C19_NoRetry ==
    /\ \A k \in DOMAIN sdkCalls : sdkCalls[k].itemIndex \in ItemIds
    /\ \A i \in ItemIds : Cardinality(CallsFor(i)) <= 1

\* a batch has run to its end under continueOnFail with an item that timed
\* out and an item whose stream failed otherwise, each called exactly once
C19_Witness ==
    /\ pc = "done"
    /\ continueOnFail
    /\ \E n \in DOMAIN returnData : \E m \in DOMAIN returnData :
        LET r == returnData[n]
            q == returnData[m]
        IN
        /\ ~IsFormatted(r)
        /\ r.json.errorType = Str("timeout")
        /\ Cardinality(CallsFor(r.pairedItem)) = 1
        /\ ~IsFormatted(q)
        /\ q.json.errorType = Str("execution_error")
        /\ Cardinality(CallsFor(q.pairedItem)) = 1

-----------------------------------------------------------------------------
(* C20: cancellation is isolated per item                                  *)

\* item j has failed with a timeout: a failure record of type timeout, or the
\* raised timeout error
TimedOut(j) ==
    \/ \E n \in DOMAIN returnData :
           /\ ~IsFormatted(returnData[n])
           /\ returnData[n].pairedItem = j
           /\ returnData[n].json.errorType = Str("timeout")
    \/ /\ thrown # <<>>
       /\ thrown[1].itemIndex = j
       /\ thrown[1].message = MsgTimeout(items[j + 1].timeout)

\* an item is aborted, or has failed with a timeout, only when its own timer
\* has fired
C20_Inv ==
    \A j \in ItemIds :
        /\ aborted[j] => timers[j] = "fired"
        /\ TimedOut(j) => (timers[j] = "fired" /\ aborted[j])

\* the firing of the timer of item i aborts the token of item i alone and
\* touches no stream and no output; a stream is closed by an abort only when
\* the token of its own item is aborted
C20_Step ==
    /\ \A i \in ItemIds :
        (timers[i] = "pending" /\ timers'[i] = "fired") =>
            /\ aborted' = [aborted EXCEPT ![i] = TRUE]
            /\ \A j \in ItemIds \ {i} : timers'[j] = timers[j]
            /\ stream' = stream
            /\ returnData' = returnData
            /\ thrown' = thrown
            /\ pc' = pc
    /\ \A j \in ItemIds :
        (~TimedOut(j) /\ TimedOut(j)') =>
            (j = itemIndex /\ aborted[j] /\ timers[j] = "fired")

\* C20: each item has its own cancellation token and timer; the firing of
\* the timer armed for item i, also one left pending after item i ended,
\* aborts item i alone: it never aborts the stream of another item j nor
\* makes j fail with a timeout.
C20_Isolated == []C20_Inv /\ [][C20_Step]_vars

\* the timer left pending by a blank first item has fired while the stream of
\* the second item is open, and the second item is not aborted
C20_Witness ==
    /\ Len(items) = 2
    /\ AllSpace(items[1].prompt)
    /\ timers[0] = "fired"
    /\ aborted[0]
    /\ itemIndex = 1
    /\ pc = "drain"
    /\ stream[1] = "open"
    /\ ~aborted[1]
    /\ timers[1] = "pending"

-----------------------------------------------------------------------------
(* C21: one output record per item                                         *)

SchemaFormats == {"structured", "messages", "text"}

\* the keys that tell the formatted output of a format
FormatKeys(fmt) ==
    IF fmt = "text" THEN {"result", "success"}
    ELSE IF fmt = "messages" THEN {"messages", "messageCount"}
    ELSE {"summary", "success"}

\* the record is the output of item i: its failure record when the item
\* failed, else an output in the item's format
IsRecordOf(r, i) ==
    /\ r.pairedItem = i
    /\ IF Failed(i)
       THEN r = FailureRecord(FailureCause(i)[1], i)
       ELSE /\ IsFormatted(r)
            /\ FormatKeys(FormatOf(i)) \subseteq DOMAIN r.json

====
